---- MODULE Spec2Model ----
(***************************************************************************)
(* A model of internal/modeling/addresstree.go: the nybble trie that       *)
(* stores IPv6 addresses (AddressTree / AddressTreeNode), its insertion,   *)
(* membership, enumeration and prefix-range operations.                    *)
(*                                                                         *)
(* A node is the record [ChildrenCount, Children, Depth]; Children is a    *)
(* function from the nybbles present to child nodes.  A nil *node is Nil.  *)
(* A call that panics (nil dereference, integer division by zero) ends     *)
(* the process: no operation is taken after it.                            *)
(***************************************************************************)
EXTENDS Integers, Sequences, FiniteSets, TLC

\* ---------------------------------------------------------------- constants

\* Nybbles of a full address: GetNybblesFromIP(toAdd, 32).
NybbleCount == 32

\* Depth of a node that terminates an address: Depth != 31 in getAllIPs.
LeafDepth == 31

\* Depth is a uint8.
Uint8Mod == 256

\* Nybble boundary: ones % 4 in getSeekNybbles.
NybbleBits == 4

\* ------------------------------------------------------------------- bounds

\* No call is taken that would leave more addresses than this in the tree.
MaxCount == 3

\* ------------------------------------------------------------------- inputs

\* Bytes of the addresses the operations are called with: a 16-byte net.IP
\* that is 0x5C everywhere but at bytes 1, 9 and 16.
IPOf(b1, b9, b16) ==
    [i \in 1..16 |-> IF i = 1 THEN b1
                     ELSE IF i = 9 THEN b9
                     ELSE IF i = 16 THEN b16
                     ELSE 92]

\* ipA and ipB differ in the last nybble only, ipA and ipC from nybble 17 on,
\* ipA and ipD in the first nybble.
ipA == IPOf(32, 1, 160)
ipB == IPOf(32, 1, 161)
ipC == IPOf(32, 17, 160)
ipD == IPOf(48, 1, 160)

IPs == {ipA, ipB, ipC, ipD}

\* The lists AddIPs and CreateFromAddresses are called with: empty, with
\* repeated addresses, and each order beside another order of the same list.
Batches ==
    {<<>>, <<ipA>>, <<ipA, ipA>>,
     <<ipA, ipB>>, <<ipB, ipA>>,
     <<ipA, ipB, ipA>>, <<ipB, ipA, ipA>>,
     <<ipA, ipB, ipC>>, <<ipC, ipB, ipA>>,
     <<ipC, ipD>>,
     <<ipD, ipC, ipD, ipA>>, <<ipA, ipC, ipD, ipD>>}

EmitFreqs == {0, 1, 2}

\* The mask sizes of the ranges queried: none, one nybble, 16 nybbles,
\* 31 nybbles, a whole address, and two sizes off a nybble boundary.
PrefixOnes == {0, 4, 6, 64, 124, 127, 128}

\* The range loops that go downwards, by the number of nybbles that reach
\* the node: the nodes with more than one child are reached by 0, 16 or 31.
RangeOrders == SUBSET {0, 16, 31}

\* The unused capacity the slice of n nybbles may come with: none, what a
\* loop of appends leaves, or room for a whole address.
SpareChoices(n) ==
    {0,
     (IF n = 0 THEN 0 ELSE IF n <= 8 THEN 8 ELSE IF n <= 16 THEN 16 ELSE 32) - n,
     32 - n}

Elems(s) == {s[i] : i \in 1..Len(s)}

\* ----------------------------------------------------- addressing (codec)

\* addressing.GetNybblesFromIP: the leading nybbleCount nybbles of ip, high
\* nybble of each byte first.
GetNybblesFromIP(ip, nybbleCount) ==
    [i \in 1..nybbleCount |->
        IF i % 2 = 1 THEN ip[(i + 1) \div 2] \div 16
                     ELSE ip[i \div 2] % 16]

\* addressing.NybblesToIP: packs pairs of nybbles into bytes.
NybblesToIP(nybbles) ==
    [i \in 1..(Len(nybbles) \div 2) |->
        nybbles[2 * i - 1] * 16 + nybbles[2 * i]]

\* ------------------------------------------------------------------- nodes

\* A nil *AddressTreeNode.
Nil == [nil |-> TRUE]

EmptyChildren == [k \in {} |-> Nil]

\* m[k] = v in a Go map.
MapPut(m, k, v) ==
    [j \in DOMAIN m \cup {k} |-> IF j = k THEN v ELSE m[j]]

newAddressTree ==
    [ChildrenCount |-> 0, Children |-> EmptyChildren]

\* newAddressTreeNode leaving Depth at its zero value.
newAddressTreeNode_noDepth(depth) ==
    [ChildrenCount |-> 0, Children |-> EmptyChildren, Depth |-> 0]

newAddressTreeNode(depth) ==
    [ChildrenCount |-> 0, Children |-> EmptyChildren, Depth |-> depth]

\* ---------------------------------------------------------------- membership

RECURSIVE containsNybbles(_, _)
containsNybbles(addrTreeNode, nybbles) ==
    IF Head(nybbles) \notin DOMAIN addrTreeNode.Children THEN FALSE
    ELSE IF Len(nybbles) = 1 THEN TRUE
    ELSE containsNybbles(addrTreeNode.Children[Head(nybbles)], Tail(nybbles))

containsIPByNybbles(addrTree, nybbles) ==
    IF Head(nybbles) \notin DOMAIN addrTree.Children THEN FALSE
    ELSE containsNybbles(addrTree.Children[Head(nybbles)], Tail(nybbles))

\* ContainsIP walking one nybble short of the whole address.
ContainsIP_shortWalk(addrTree, toCheck) ==
    containsIPByNybbles(addrTree, GetNybblesFromIP(toCheck, NybbleCount - 1))

ContainsIP(addrTree, toCheck) ==
    containsIPByNybbles(addrTree, GetNybblesFromIP(toCheck, NybbleCount))

\* ----------------------------------------------------------------- insertion

\* Whether the Children of a tree or node is a nil map: one that was never
\* made.  A nil map reads as an empty one (len, lookup and range), and an
\* assignment to an entry of it panics.  Trees and nodes made by
\* newAddressTree and newAddressTreeNode carry no such mark.
NilMap(x) == "nilMap" \in DOMAIN x

\* Whether inserting nybbles assigns to an entry of a nil map: the walk along
\* the nodes there are ends, with nybbles left, at a node whose map is nil.
RECURSIVE writesNilMap(_, _)
writesNilMap(x, nybbles) ==
    IF Len(nybbles) = 0 THEN FALSE
    ELSE IF Head(nybbles) \notin DOMAIN x.Children THEN NilMap(x)
    ELSE writesNilMap(x.Children[Head(nybbles)], Tail(nybbles))

\* Children[k] = node without the test that k is missing.
WithChild_overwrite(children, k, node) == MapPut(children, k, node)

\* The children after `if _, ok := Children[k]; !ok { Children[k] = node }`.
WithChild(children, k, node) ==
    IF k \in DOMAIN children THEN children ELSE MapPut(children, k, node)

RECURSIVE addNybbles(_, _)

\* addNybbles giving a new child its parent's Depth.
addNybbles_sameDepth(addrTreeNode, nybbles) ==
    IF Len(nybbles) = 0 THEN addrTreeNode
    ELSE [addrTreeNode EXCEPT
            !.Children =
                [WithChild(@, Head(nybbles),
                           newAddressTreeNode(addrTreeNode.Depth))
                 EXCEPT ![Head(nybbles)] = addNybbles(@, Tail(nybbles))],
            !.ChildrenCount = @ + 1]

addNybbles(addrTreeNode, nybbles) ==
    IF Len(nybbles) = 0 THEN addrTreeNode
    ELSE [addrTreeNode EXCEPT
            !.Children =
                [WithChild(@, Head(nybbles),
                           newAddressTreeNode(
                               (addrTreeNode.Depth + 1) % Uint8Mod))
                 EXCEPT ![Head(nybbles)] = addNybbles(@, Tail(nybbles))],
            !.ChildrenCount = @ + 1]

\* AddIP without the containsIPByNybbles check.
AddIP_noDuplicateCheck(addrTree, toAdd) ==
    LET ipNybbles == GetNybblesFromIP(toAdd, NybbleCount)
    IN  [tree |->
            [addrTree EXCEPT
               !.Children =
                   [WithChild(@, Head(ipNybbles), newAddressTreeNode(0))
                    EXCEPT ![Head(ipNybbles)] =
                               addNybbles(@, Tail(ipNybbles))],
               !.ChildrenCount = @ + 1],
         ret |-> TRUE, panic |-> FALSE]

\* AddIP without addrTree.ChildrenCount++.
AddIP_noRootCount(addrTree, toAdd) ==
    LET ipNybbles == GetNybblesFromIP(toAdd, NybbleCount)
    IN  IF containsIPByNybbles(addrTree, ipNybbles)
        THEN [tree |-> addrTree, ret |-> FALSE, panic |-> FALSE]
        ELSE [tree |->
                [addrTree EXCEPT
                   !.Children =
                       [WithChild(@, Head(ipNybbles), newAddressTreeNode(0))
                        EXCEPT ![Head(ipNybbles)] =
                                   addNybbles(@, Tail(ipNybbles))]],
              ret |-> TRUE, panic |-> FALSE]

\* AddIP putting a new node at the first nybble whether or not one is there.
AddIP_replacesChild(addrTree, toAdd) ==
    LET ipNybbles == GetNybblesFromIP(toAdd, NybbleCount)
    IN  IF containsIPByNybbles(addrTree, ipNybbles)
        THEN [tree |-> addrTree, ret |-> FALSE, panic |-> FALSE]
        ELSE [tree |->
                [addrTree EXCEPT
                   !.Children =
                       [MapPut(@, Head(ipNybbles), newAddressTreeNode(0))
                        EXCEPT ![Head(ipNybbles)] =
                                   addNybbles(@, Tail(ipNybbles))],
                   !.ChildrenCount = @ + 1],
              ret |-> TRUE, panic |-> FALSE]

\* AddIP: [tree |-> the tree after the call, ret |-> the value returned,
\* panic |-> whether it assigned to an entry of a nil map (lines 49, 165; it
\* has written nothing by then, every node above a nil map being an old one)].
AddIP(addrTree, toAdd) ==
    LET ipNybbles == GetNybblesFromIP(toAdd, NybbleCount)
    IN  IF containsIPByNybbles(addrTree, ipNybbles)
        THEN [tree |-> addrTree, ret |-> FALSE, panic |-> FALSE]
        ELSE IF writesNilMap(addrTree, ipNybbles)
        THEN [tree |-> addrTree, ret |-> FALSE, panic |-> TRUE]
        ELSE [tree |->
                [addrTree EXCEPT
                   !.Children =
                       [WithChild(@, Head(ipNybbles), newAddressTreeNode(0))
                        EXCEPT ![Head(ipNybbles)] =
                                   addNybbles(@, Tail(ipNybbles))],
                   !.ChildrenCount = @ + 1],
              ret |-> TRUE, panic |-> FALSE]

\* --------------------------------------------------------------- byte slices

\* A []uint8 is [arr, len, cap]: a window on the backing array heap[arr].
\* The heap is the sequence of the arrays allocated so far.

\* The capacity append gives a grown []uint8 (the runtime doubles the old
\* capacity and rounds up to an allocation size class).
GrowCap(oldCap, newLen) ==
    LET want == IF newLen > 2 * oldCap THEN newLen ELSE 2 * oldCap
        classes == {8, 16, 24, 32, 48, 64}
    IN  CHOOSE c \in classes :
            /\ c >= want
            /\ \A d \in classes : d >= want => c <= d

\* []uint8{...}: a fresh array holding elems, with room for spare more.
MakeSlice(heap, elems, spare) ==
    [heap |-> Append(heap, [i \in 1..(Len(elems) + spare) |->
                               IF i <= Len(elems) THEN elems[i] ELSE 0]),
     slice |-> [arr |-> Len(heap) + 1, len |-> Len(elems),
                cap |-> Len(elems) + spare]]

\* The elements a slice shows.
SliceElems(heap, s) == SubSeq(heap[s.arr], 1, s.len)

\* append(s, k): writes in place when s has spare capacity (the array is then
\* shared with s and every other slice on it), else copies to a grown array.
appendNybble(heap, s, k) ==
    IF s.len < s.cap
    THEN [heap |-> [heap EXCEPT ![s.arr][s.len + 1] = k],
          slice |-> [s EXCEPT !.len = @ + 1]]
    ELSE LET newCap == GrowCap(s.cap, s.len + 1)
             grown == [i \in 1..newCap |->
                          IF i <= s.len THEN heap[s.arr][i]
                          ELSE IF i = s.len + 1 THEN k ELSE 0]
         IN  [heap |-> Append(heap, grown),
              slice |-> [arr |-> Len(heap) + 1, len |-> s.len + 1,
                         cap |-> newCap]]

\* --------------------------------------------------------------- enumeration

\* The keys of a Go map in the order one range loop visits them: the order is
\* the runtime's; a loop at a node reached by n nybbles goes downwards when
\* n is in rev and upwards otherwise.
RECURSIVE Ascending(_)
Ascending(keys) ==
    IF keys = {} THEN <<>>
    ELSE LET m == CHOOSE k \in keys : \A j \in keys : k <= j
         IN  <<m>> \o Ascending(keys \ {m})

Reverse(s) == [i \in 1..Len(s) |-> s[Len(s) + 1 - i]]

RangeOrder(keys, level, rev) ==
    IF level \in rev THEN Reverse(Ascending(keys)) ELSE Ascending(keys)

\* getAllIPs: [panic, ips, warned, heap]; panic is the nil dereference of a
\* nil receiver, warned counts the logging.Warnf calls, heap is the heap the
\* call leaves.
RECURSIVE getAllIPs(_, _, _, _)
RECURSIVE rangeChildren(_, _, _, _, _)

\* getAllIPs taking a node for childless when its map is nil, not when it
\* is empty.
getAllIPs_childlessIsNilMap(addrTreeNode, parentNybbles, heap, rev) ==
    CASE addrTreeNode = Nil ->
            [panic |-> TRUE, ips |-> <<>>, warned |-> 0, heap |-> heap]
      [] addrTreeNode # Nil /\ NilMap(addrTreeNode) ->
            IF addrTreeNode.Depth # LeafDepth
            THEN [panic |-> FALSE, ips |-> <<>>, warned |-> 1, heap |-> heap]
            ELSE [panic |-> FALSE,
                  ips |-> <<NybblesToIP(SliceElems(heap, parentNybbles))>>,
                  warned |-> 0, heap |-> heap]
      [] OTHER ->
            rangeChildren(addrTreeNode,
                          RangeOrder(DOMAIN addrTreeNode.Children,
                                     parentNybbles.len, rev),
                          parentNybbles, heap, rev)

getAllIPs(addrTreeNode, parentNybbles, heap, rev) ==
    CASE addrTreeNode = Nil ->
            [panic |-> TRUE, ips |-> <<>>, warned |-> 0, heap |-> heap]
      [] addrTreeNode # Nil /\ DOMAIN addrTreeNode.Children = {} ->
            IF addrTreeNode.Depth # LeafDepth
            THEN [panic |-> FALSE, ips |-> <<>>, warned |-> 1, heap |-> heap]
            ELSE [panic |-> FALSE,
                  ips |-> <<NybblesToIP(SliceElems(heap, parentNybbles))>>,
                  warned |-> 0, heap |-> heap]
      [] OTHER ->
            rangeChildren(addrTreeNode,
                          RangeOrder(DOMAIN addrTreeNode.Children,
                                     parentNybbles.len, rev),
                          parentNybbles, heap, rev)

\* The range loop of getAllIPs over the keys left to visit: each child gets
\* append(parentNybbles, k). A panic in any iteration ends the loop and the
\* call: nothing is returned and the keys after it are not visited.
rangeChildren(addrTreeNode, keys, parentNybbles, heap, rev) ==
    IF keys = <<>>
    THEN [panic |-> FALSE, ips |-> <<>>, warned |-> 0, heap |-> heap]
    ELSE LET a == appendNybble(heap, parentNybbles, Head(keys))
             r == getAllIPs(addrTreeNode.Children[Head(keys)],
                            a.slice, a.heap, rev)
             rest == rangeChildren(addrTreeNode, Tail(keys), parentNybbles,
                                   r.heap, rev)
         IN  IF r.panic THEN r
             ELSE IF rest.panic
             THEN [panic |-> TRUE, ips |-> <<>>,
                   warned |-> r.warned + rest.warned, heap |-> rest.heap]
             ELSE [panic |-> FALSE, ips |-> r.ips \o rest.ips,
                   warned |-> r.warned + rest.warned, heap |-> rest.heap]

\* The range loop of GetAllIPs: each child gets the fresh slice []uint8{k}.
\* A panic in any iteration ends the loop and the call.
RECURSIVE rangeRoot(_, _, _, _)
rangeRoot(addrTree, keys, heap, rev) ==
    IF keys = <<>>
    THEN [panic |-> FALSE, ips |-> <<>>, warned |-> 0, heap |-> heap]
    ELSE LET a == MakeSlice(heap, <<Head(keys)>>, 0)
             r == getAllIPs(addrTree.Children[Head(keys)],
                            a.slice, a.heap, rev)
             rest == rangeRoot(addrTree, Tail(keys), r.heap, rev)
         IN  IF r.panic THEN r
             ELSE IF rest.panic
             THEN [panic |-> TRUE, ips |-> <<>>,
                   warned |-> r.warned + rest.warned, heap |-> rest.heap]
             ELSE [panic |-> FALSE, ips |-> r.ips \o rest.ips,
                   warned |-> r.warned + rest.warned, heap |-> rest.heap]

\* GetAllIPs returning from inside its range loop, after the first child.
GetAllIPs_returnInLoop(addrTree, heap, rev) ==
    IF addrTree.ChildrenCount = 0
    THEN [panic |-> FALSE, ips |-> <<>>, warned |-> 0, heap |-> heap]
    ELSE rangeRoot(addrTree,
                   SubSeq(RangeOrder(DOMAIN addrTree.Children, 0, rev), 1, 1),
                   heap, rev)

GetAllIPs(addrTree, heap, rev) ==
    IF addrTree.ChildrenCount = 0
    THEN [panic |-> FALSE, ips |-> <<>>, warned |-> 0, heap |-> heap]
    ELSE rangeRoot(addrTree, RangeOrder(DOMAIN addrTree.Children, 0, rev),
                   heap, rev)

\* ------------------------------------------------------------- prefix ranges

RECURSIVE seekNode(_, _)
seekNode(addrTreeNode, seekNybbles) ==
    IF Len(seekNybbles) = 0 THEN addrTreeNode
    ELSE IF Head(seekNybbles) \notin DOMAIN addrTreeNode.Children THEN Nil
    ELSE seekNode(addrTreeNode.Children[Head(seekNybbles)], Tail(seekNybbles))

\* seekChildByNybbles: the node and the error, which is always nil.
seekChildByNybbles(addrTree, nybbles) ==
    IF Head(nybbles) \notin DOMAIN addrTree.Children
    THEN [node |-> Nil, err |-> FALSE]
    ELSE [node |-> seekNode(addrTree.Children[Head(nybbles)], Tail(nybbles)),
          err |-> FALSE]

\* getSeekNybbles testing ones % 8, a byte boundary.
getSeekNybbles_byteBoundary(ip, ones) ==
    IF ones % (2 * NybbleBits) # 0
    THEN [nybbles |-> <<>>, err |-> TRUE, size |-> ones]
    ELSE [nybbles |-> GetNybblesFromIP(ip, ones \div NybbleBits),
          err |-> FALSE, size |-> ones]

\* getSeekNybbles: a range is its base address and the ones of its mask.
getSeekNybbles(ip, ones) ==
    IF ones % NybbleBits # 0
    THEN [nybbles |-> <<>>, err |-> TRUE, size |-> ones]
    ELSE [nybbles |-> GetNybblesFromIP(ip, ones \div NybbleBits),
          err |-> FALSE, size |-> ones]

\* GetIPsInRange handing the node reached an empty slice, not networkNybbles.
GetIPsInRange_unrooted(addrTree, ip, ones, rev, spare) ==
    LET seek == getSeekNybbles(ip, ones)
        networkNybbles == seek.nybbles
        child == seekChildByNybbles(addrTree, networkNybbles)
        made == MakeSlice(<<>>, <<>>, spare)
        all == GetAllIPs(addrTree, <<>>, rev)
        under == getAllIPs(child.node, made.slice, made.heap, rev)
    IN  IF seek.err
        THEN [outcome |-> "error", ips |-> <<>>, size |-> seek.size,
              warned |-> 0]
        ELSE IF Len(networkNybbles) = 0
        THEN [outcome |-> IF all.panic THEN "panic" ELSE "ok",
              ips |-> all.ips, size |-> 0,
              warned |-> all.warned]
        ELSE IF under.panic
        THEN [outcome |-> "panic", ips |-> <<>>, size |-> 0,
              warned |-> under.warned]
        ELSE [outcome |-> "ok", ips |-> under.ips, size |-> 0,
              warned |-> under.warned]

\* GetIPsInRange: outcome is "ok", "error" (a returned error, whose message
\* carries size) or "panic"; spare is the unused capacity of the slice the
\* codec returned; warned counts the logging.Warnf calls made, those before
\* a panic included.
GetIPsInRange(addrTree, ip, ones, rev, spare) ==
    LET seek == getSeekNybbles(ip, ones)
        networkNybbles == seek.nybbles
        child == seekChildByNybbles(addrTree, networkNybbles)
        made == MakeSlice(<<>>, networkNybbles, spare)
        all == GetAllIPs(addrTree, <<>>, rev)
        under == getAllIPs(child.node, made.slice, made.heap, rev)
    IN  IF seek.err
        THEN [outcome |-> "error", ips |-> <<>>, size |-> seek.size,
              warned |-> 0]
        ELSE IF Len(networkNybbles) = 0
        THEN [outcome |-> IF all.panic THEN "panic" ELSE "ok",
              ips |-> all.ips, size |-> 0,
              warned |-> all.warned]
        ELSE IF child.err
        THEN [outcome |-> "error", ips |-> <<>>, size |-> 0, warned |-> 0]
        ELSE IF under.panic
        THEN [outcome |-> "panic", ips |-> <<>>, size |-> 0,
              warned |-> under.warned]
        ELSE [outcome |-> "ok", ips |-> under.ips, size |-> 0,
              warned |-> under.warned]

\* CountIPsInRange returning len(child.Children), not child.ChildrenCount.
CountIPsInRange_directChildren(addrTree, ip, ones) ==
    LET seek == getSeekNybbles(ip, ones)
        networkNybbles == seek.nybbles
        child == seekChildByNybbles(addrTree, networkNybbles)
    IN  IF seek.err
        THEN [outcome |-> "error", count |-> -1, size |-> seek.size]
        ELSE IF Len(networkNybbles) = 0
        THEN [outcome |-> "ok", count |-> addrTree.ChildrenCount, size |-> 0]
        ELSE IF Len(networkNybbles) = NybbleCount
        THEN [outcome |-> "ok",
              count |-> IF containsIPByNybbles(addrTree, networkNybbles)
                        THEN 1 ELSE 0,
              size |-> 0]
        ELSE IF child.node = Nil
        THEN [outcome |-> "panic", count |-> 0, size |-> 0]
        ELSE [outcome |-> "ok",
              count |-> Cardinality(DOMAIN child.node.Children), size |-> 0]

\* CountIPsInRange without the case of a whole address: the count is read
\* from the node the 32 nybbles lead to.
CountIPsInRange_noFullWidthCase(addrTree, ip, ones) ==
    LET seek == getSeekNybbles(ip, ones)
        networkNybbles == seek.nybbles
        child == seekChildByNybbles(addrTree, networkNybbles)
    IN  IF seek.err
        THEN [outcome |-> "error", count |-> -1, size |-> seek.size]
        ELSE IF Len(networkNybbles) = 0
        THEN [outcome |-> "ok", count |-> addrTree.ChildrenCount, size |-> 0]
        ELSE IF child.node = Nil
        THEN [outcome |-> "panic", count |-> 0, size |-> 0]
        ELSE [outcome |-> "ok", count |-> child.node.ChildrenCount,
              size |-> 0]

\* CountIPsInRange: reading child.ChildrenCount of a nil child panics.
CountIPsInRange(addrTree, ip, ones) ==
    LET seek == getSeekNybbles(ip, ones)
        networkNybbles == seek.nybbles
        child == seekChildByNybbles(addrTree, networkNybbles)
    IN  IF seek.err
        THEN [outcome |-> "error", count |-> -1, size |-> seek.size]
        ELSE IF Len(networkNybbles) = 0
        THEN [outcome |-> "ok", count |-> addrTree.ChildrenCount, size |-> 0]
        ELSE IF Len(networkNybbles) = NybbleCount
        THEN [outcome |-> "ok",
              count |-> IF containsIPByNybbles(addrTree, networkNybbles)
                        THEN 1 ELSE 0,
              size |-> 0]
        ELSE IF child.err
        THEN [outcome |-> "error", count |-> -1, size |-> 0]
        ELSE IF child.node = Nil
        THEN [outcome |-> "panic", count |-> 0, size |-> 0]
        ELSE [outcome |-> "ok", count |-> child.node.ChildrenCount,
              size |-> 0]

\* ------------------------------------------------------------ bulk insertion

\* i % emitFreq in Go, for i >= 0 and emitFreq # 0.
GoMod(i, m) == IF m < 0 THEN i % (0 - m) ELSE i % m

\* The loop of AddIPs from index i (0-based) on: [tree, added, skipped,
\* logged, panic]; i % emitFreq panics when emitFreq is 0, and AddIP may.
RECURSIVE addIPsFrom(_, _, _, _)
addIPsFrom(acc, toAdd, emitFreq, i) ==
    IF i >= Len(toAdd) THEN acc
    ELSE IF emitFreq = 0 THEN [acc EXCEPT !.panic = TRUE]
    ELSE LET r == AddIP(acc.tree, toAdd[i + 1])
         IN  IF r.panic
             THEN [acc EXCEPT !.panic = TRUE,
                              !.logged = IF GoMod(i, emitFreq) = 0
                                         THEN @ + 1 ELSE @]
             ELSE
             addIPsFrom([tree |-> r.tree,
                         added |-> IF r.ret THEN acc.added + 1 ELSE acc.added,
                         skipped |-> IF r.ret THEN acc.skipped
                                     ELSE acc.skipped + 1,
                         logged |-> IF GoMod(i, emitFreq) = 0
                                    THEN acc.logged + 1 ELSE acc.logged,
                         panic |-> FALSE],
                        toAdd, emitFreq, i + 1)

\* AddIPs returning its two counters in the other order.
AddIPs_swapped(addrTree, toAdd, emitFreq) ==
    LET r == addIPsFrom([tree |-> addrTree, added |-> 0, skipped |-> 0,
                         logged |-> 0, panic |-> FALSE],
                        toAdd, emitFreq, 0)
    IN  [r EXCEPT !.added = r.skipped, !.skipped = r.added]

AddIPs(addrTree, toAdd, emitFreq) ==
    addIPsFrom([tree |-> addrTree, added |-> 0, skipped |-> 0, logged |-> 0,
                panic |-> FALSE],
               toAdd, emitFreq, 0)

CreateFromAddresses(toAdd, emitFreq) ==
    AddIPs(newAddressTree, toAdd, emitFreq)

\* ------------------------------------------------------------------- tables

\* The trees that hold at most n addresses, however they were built.
RECURSIVE TreesWithin(_)
TreesWithin(n) ==
    IF n = 0 THEN {newAddressTree}
    ELSE LET smaller == TreesWithin(n - 1)
         IN  smaller \cup
             {AddIP(t, ip).tree : t \in smaller, ip \in IPs}

Trees == TreesWithin(MaxCount)

\* The calls made with a range: base address, mask size, order of the range
\* loops, spare capacity of the nybble slice.  A mask size off a nybble
\* boundary gets no slice and runs no loop: one order and capacity stand
\* for all.
RangeCalls ==
    {<<ip, ones, rev, spare>> \in
        IPs \X PrefixOnes \X RangeOrders \X (0..NybbleCount) :
            /\ spare \in SpareChoices(ones \div NybbleBits)
            /\ ones % NybbleBits # 0 => (rev = {} /\ spare = 0)}

BatchCalls == Batches \X EmitFreqs

\* The operations that walk a whole subtree or a whole list, tabulated over
\* the trees and the calls above: the value at an argument is the operation
\* applied to it.  (f @@ <<>> is f, written out as an explicit function, so
\* that each value is computed once.)
GetAllIPsTable ==
    [t \in Trees |->
        [rev \in RangeOrders |-> GetAllIPs(t, <<>>, rev)] @@ <<>>] @@ <<>>

GetIPsInRangeTable ==
    [t \in Trees |->
        [c \in RangeCalls |->
            GetIPsInRange(t, c[1], c[2], c[3], c[4])] @@ <<>>] @@ <<>>

AddIPsTable ==
    [t \in Trees |->
        [c \in BatchCalls |-> AddIPs(t, c[1], c[2])] @@ <<>>] @@ <<>>

CreateFromAddressesTable ==
    [c \in BatchCalls |-> CreateFromAddresses(c[1], c[2])] @@ <<>>

\* -------------------------------------------------------------- persistence

\* persist.Save and persist.Load: what they write for a tree and read back.
\* The file holds the root's count and one entry [path, count, depth] for
\* each node, path being the nybbles that lead to the node.
RECURSIVE EncodeNode(_, _)
EncodeNode(addrTreeNode, path) ==
    {[path |-> path, count |-> addrTreeNode.ChildrenCount,
      depth |-> addrTreeNode.Depth]}
    \cup UNION {EncodeNode(addrTreeNode.Children[k], Append(path, k)) :
                   k \in DOMAIN addrTreeNode.Children}

Encode(addrTree) ==
    [count |-> addrTree.ChildrenCount,
     nodes |-> UNION {EncodeNode(addrTree.Children[k], <<k>>) :
                         k \in DOMAIN addrTree.Children}]

\* The node whose path ends with k at position level, from the entries that
\* share the nybbles before that position.  A map with entries is made; one
\* without is made or left nil, as the codec does with an empty map
\* (nilEmpty).
RECURSIVE DecodeNode(_, _, _, _)
DecodeNode(nodes, level, k, nilEmpty) ==
    LET mine == {c \in nodes : c.path[level] = k}
        e == CHOOSE c \in mine : Len(c.path) = level
        below == mine \ {e}
    IN  IF nilEmpty /\ below = {}
        THEN [ChildrenCount |-> e.count, Children |-> EmptyChildren,
              Depth |-> e.depth, nilMap |-> TRUE]
        ELSE [ChildrenCount |-> e.count,
              Children |-> [j \in {c.path[level + 1] : c \in below} |->
                               DecodeNode(below, level + 1, j, nilEmpty)],
              Depth |-> e.depth]

Decode(file, nilEmpty) ==
    IF nilEmpty /\ file.nodes = {}
    THEN [ChildrenCount |-> file.count, Children |-> EmptyChildren,
          nilMap |-> TRUE]
    ELSE [ChildrenCount |-> file.count,
          Children |-> [k \in {c.path[1] : c \in file.nodes} |->
                           DecodeNode(file.nodes, 1, k, nilEmpty)]]

\* No file at filePath.
NoFile == [count |-> -1, nodes |-> {}]

\* var toReturn AddressTree: the zero value, count 0 and a nil map.
ZeroAddressTree ==
    [ChildrenCount |-> 0, Children |-> EmptyChildren, nilMap |-> TRUE]

\* Save: the error persist.Save returns, and the file it leaves.
Save(addrTree, file, codecErr) ==
    [err |-> codecErr,
     file |-> IF codecErr THEN file ELSE Encode(addrTree)]

\* LoadAddressTreeFromFile returning a nil error whatever persist.Load says.
LoadAddressTreeFromFile_swallowsError(file, codecErr, nilEmpty) ==
    [tree |-> IF codecErr THEN ZeroAddressTree ELSE Decode(file, nilEmpty),
     err |-> FALSE]

\* LoadAddressTreeFromFile: &toReturn and the error persist.Load returns;
\* toReturn stays the zero AddressTree when persist.Load fails.
LoadAddressTreeFromFile(file, codecErr, nilEmpty) ==
    [tree |-> IF codecErr THEN ZeroAddressTree ELSE Decode(file, nilEmpty),
     err |-> codecErr]

\* -------------------------------------------------------------------- state

VARIABLES
    tree,       \* the *AddressTree the caller holds
    inserted,   \* the addresses AddIP has been called with on this tree
    numAdded,   \* how many AddIP calls on this tree returned true
    last,       \* the last call: its operation, arguments and results
    disk,       \* the file at filePath, and the tree and record saved in it
    mem,        \* the memory readers share: the tree's nodes, their slices
    readers     \* each reading goroutine: its call and how far it has got

vars == <<tree, inserted, numAdded, last, disk, mem, readers>>

\* The record of a call; a field the call does not use keeps its default.
\* outcome is "ok" (a normal return without error), "error" (a returned
\* error, whose message carries size) or "panic".
NoCall ==
    [op |-> "new", ip |-> <<>>, ones |-> 0, toAdd |-> <<>>, emitFreq |-> 1,
     outcome |-> "ok", bool |-> FALSE, ips |-> <<>>, count |-> 0, size |-> 0,
     added |-> 0, skipped |-> 0, logged |-> 0, warned |-> 0]

\* A panic ends the process.
Running == last.outcome # "panic"

Init ==
    /\ tree = newAddressTree
    /\ inserted = {}
    /\ numAdded = 0
    /\ last = NoCall
    /\ disk = [file |-> NoFile, saved |-> newAddressTree, inserted |-> {},
               numAdded |-> 0]
    /\ mem = <<>>
    /\ readers = <<>>

DoAddIP ==
    /\ Running
    /\ \E toAdd \in IPs :
          LET r == AddIP(tree, toAdd)
          IN  /\ r.tree.ChildrenCount <= MaxCount
              /\ tree' = r.tree
              /\ inserted' = IF r.panic THEN inserted
                             ELSE inserted \cup {toAdd}
              /\ numAdded' = IF r.ret THEN numAdded + 1 ELSE numAdded
              /\ last' = [NoCall EXCEPT !.op = "AddIP", !.ip = toAdd,
                                        !.outcome = IF r.panic THEN "panic"
                                                    ELSE "ok",
                                        !.bool = r.ret]
    /\ UNCHANGED <<disk, mem, readers>>

DoAddIPs ==
    /\ Running
    /\ \E c \in BatchCalls :
          LET r == AddIPsTable[tree][c]
          IN  /\ r.tree.ChildrenCount <= MaxCount
              /\ tree' = r.tree
              /\ inserted' = IF r.panic THEN inserted
                             ELSE inserted \cup Elems(c[1])
              /\ numAdded' = numAdded + r.added
              /\ last' = [NoCall EXCEPT
                            !.op = "AddIPs", !.toAdd = c[1],
                            !.emitFreq = c[2],
                            !.outcome = IF r.panic THEN "panic" ELSE "ok",
                            !.added = r.added, !.skipped = r.skipped,
                            !.logged = r.logged]
    /\ UNCHANGED <<disk, mem, readers>>

\* CreateFromAddresses hands the caller a new tree; when it panics the caller
\* gets none and keeps the tree it had.
DoCreateFromAddresses ==
    /\ Running
    /\ \E c \in BatchCalls :
          LET r == CreateFromAddressesTable[c]
          IN  /\ r.tree.ChildrenCount <= MaxCount
              /\ tree' = IF r.panic THEN tree ELSE r.tree
              /\ inserted' = IF r.panic THEN inserted ELSE Elems(c[1])
              /\ numAdded' = IF r.panic THEN numAdded ELSE r.added
              /\ last' = [NoCall EXCEPT
                            !.op = "CreateFromAddresses", !.toAdd = c[1],
                            !.emitFreq = c[2],
                            !.outcome = IF r.panic THEN "panic" ELSE "ok",
                            !.added = r.added, !.skipped = r.skipped,
                            !.logged = r.logged]
    /\ UNCHANGED <<disk, mem, readers>>

DoContainsIP ==
    /\ Running
    /\ \E toCheck \in IPs :
          last' = [NoCall EXCEPT !.op = "ContainsIP", !.ip = toCheck,
                                 !.bool = ContainsIP(tree, toCheck)]
    /\ UNCHANGED <<tree, inserted, numAdded, disk, mem, readers>>

DoGetAllIPs ==
    /\ Running
    /\ \E rev \in RangeOrders :
          LET r == GetAllIPsTable[tree][rev]
          IN  last' = [NoCall EXCEPT !.op = "GetAllIPs",
                                     !.outcome = IF r.panic THEN "panic"
                                                 ELSE "ok",
                                     !.ips = r.ips, !.warned = r.warned]
    /\ UNCHANGED <<tree, inserted, numAdded, disk, mem, readers>>

DoGetIPsInRange ==
    /\ Running
    /\ \E c \in RangeCalls :
          LET r == GetIPsInRangeTable[tree][c]
          IN  last' = [NoCall EXCEPT !.op = "GetIPsInRange", !.ip = c[1],
                                     !.ones = c[2], !.outcome = r.outcome,
                                     !.ips = r.ips, !.size = r.size,
                                     !.warned = r.warned]
    /\ UNCHANGED <<tree, inserted, numAdded, disk, mem, readers>>

DoCountIPsInRange ==
    /\ Running
    /\ \E ip \in IPs, ones \in PrefixOnes :
          LET r == CountIPsInRange(tree, ip, ones)
          IN  last' = [NoCall EXCEPT !.op = "CountIPsInRange", !.ip = ip,
                                     !.ones = ones, !.outcome = r.outcome,
                                     !.count = r.count, !.size = r.size]
    /\ UNCHANGED <<tree, inserted, numAdded, disk, mem, readers>>

Next ==
    \/ DoAddIP
    \/ DoAddIPs
    \/ DoCreateFromAddresses
    \/ DoContainsIP
    \/ DoGetAllIPs
    \/ DoGetIPsInRange
    \/ DoCountIPsInRange

Spec == Init /\ [][Next]_vars

\* ------------------------------------------------------- saving and loading

\* Save hands the tree to persist.Save, which fails or writes the file;
\* last.bool is whether the codec failed.
DoSave ==
    /\ Running
    /\ \E codecErr \in BOOLEAN :
          LET r == Save(tree, disk.file, codecErr)
          IN  /\ disk' = IF r.err THEN disk
                         ELSE [file |-> r.file, saved |-> tree,
                               inserted |-> inserted, numAdded |-> numAdded]
              /\ last' = [NoCall EXCEPT
                            !.op = "Save", !.bool = codecErr,
                            !.outcome = IF r.err THEN "error" ELSE "ok"]
    /\ UNCHANGED <<tree, inserted, numAdded, mem, readers>>

\* LoadAddressTreeFromFile hands the caller a new tree; persist.Load fails
\* when there is no file, and may fail when there is one.  The caller keeps
\* the tree it had when an error is returned.
DoLoadAddressTreeFromFile ==
    /\ Running
    /\ \E codecErr \in BOOLEAN, nilEmpty \in BOOLEAN :
          /\ disk.file = NoFile => codecErr
          /\ codecErr => ~nilEmpty
          /\ LET r == LoadAddressTreeFromFile(disk.file, codecErr, nilEmpty)
             IN  /\ tree' = IF r.err THEN tree ELSE r.tree
                 /\ inserted' = IF r.err THEN inserted ELSE disk.inserted
                 /\ numAdded' = IF r.err THEN numAdded ELSE disk.numAdded
                 /\ last' = [NoCall EXCEPT
                               !.op = "LoadAddressTreeFromFile",
                               !.bool = codecErr,
                               !.outcome = IF r.err THEN "error" ELSE "ok"]
    /\ UNCHANGED <<disk, mem, readers>>

\* A tree built from one of the lists, with no file saved yet.
PersistInit ==
    /\ \E toAdd \in Batches :
          LET r == CreateFromAddresses(toAdd, 1)
          IN  /\ tree = r.tree
              /\ inserted = Elems(toAdd)
              /\ numAdded = r.added
    /\ last = NoCall
    /\ disk = [file |-> NoFile, saved |-> newAddressTree, inserted |-> {},
               numAdded |-> 0]
    /\ mem = <<>>
    /\ readers = <<>>

PersistNext ==
    \/ DoSave
    \/ DoLoadAddressTreeFromFile
    \/ DoAddIP

PersistSpec == PersistInit /\ [][PersistNext]_vars

\* --------------------------------------------------------- concurrent reads

\* Goroutines that read one tree at the same time.  mem is the memory they
\* share, a function from addresses: the tree's root at RootAddr and its
\* nodes after it, each Children mapping a nybble to the address of the
\* child (a *AddressTreeNode); the []uint8 arrays above ArrayBase.  A call
\* runs one node at a time, and the goroutines' steps interleave.
Readers == {1, 2}

RootAddr == 1

ArrayBase == 1000

\* The address the allocator gives goroutine r for its n-th array.
ArrayAt(r, n) == ArrayBase + 2 * n + r

\* The paths of the nodes below a node: the nybbles that lead to each.
RECURSIVE pathsBelow(_, _)
pathsBelow(node, path) ==
    {path} \cup UNION {pathsBelow(node.Children[k], Append(path, k)) :
                          k \in DOMAIN node.Children}

\* The tree or node that path leads to from x.
RECURSIVE nodeAlong(_, _)
nodeAlong(x, path) ==
    IF path = <<>> THEN x
    ELSE nodeAlong(x.Children[Head(path)], Tail(path))

\* Whether the node at path q lies before the one at path p: a node before
\* the nodes below it, and these child by child.
Before(q, p) ==
    \/ Len(q) < Len(p) /\ SubSeq(p, 1, Len(q)) = q
    \/ \E i \in 1..Len(q) :
          /\ i <= Len(p)
          /\ q[i] < p[i]
          /\ SubSeq(q, 1, i - 1) = SubSeq(p, 1, i - 1)

\* The tree as it lies in memory: its root at RootAddr, the nodes after it,
\* each with the addresses of its children in Children.
Store(addrTree) ==
    LET paths == pathsBelow(addrTree, <<>>)
        addr == [p \in paths |->
                    RootAddr + Cardinality({q \in paths : Before(q, p)})]
                @@ <<>>
    IN  [a \in RootAddr..(RootAddr + Cardinality(paths) - 1) |->
            LET p == CHOOSE q \in paths : addr[q] = a
                x == nodeAlong(addrTree, p)
            IN  [x EXCEPT !.Children =
                    [k \in DOMAIN x.Children |-> addr[Append(p, k)]] @@ <<>>]]
        @@ <<>>

\* []uint8{...} in shared memory: a fresh array at address at.
makeSliceAt(cells, at, elems, spare) ==
    [cells |-> (at :> [i \in 1..(Len(elems) + spare) |->
                          IF i <= Len(elems) THEN elems[i] ELSE 0]) @@ cells,
     slice |-> [arr |-> at, len |-> Len(elems), cap |-> Len(elems) + spare],
     fresh |-> 1]

\* append(s, k) in shared memory: in place when s has spare capacity, else
\* a grown copy at address at.
appendNybbleAt(cells, at, s, k) ==
    IF s.len < s.cap
    THEN [cells |-> [cells EXCEPT ![s.arr][s.len + 1] = k],
          slice |-> [s EXCEPT !.len = @ + 1],
          fresh |-> 0]
    ELSE LET newCap == GrowCap(s.cap, s.len + 1)
             grown == [i \in 1..newCap |->
                          IF i <= s.len THEN cells[s.arr][i]
                          ELSE IF i = s.len + 1 THEN k ELSE 0]
         IN  [cells |-> (at :> grown) @@ cells,
              slice |-> [arr |-> at, len |-> s.len + 1, cap |-> newCap],
              fresh |-> 1]

\* A read call: its operation and arguments, and what the call meets as it
\* runs: spare, the unused capacity of the slice the codec returns for the
\* range, and rev, the range loops over more than one key that the runtime
\* has run downwards, by the number of nybbles that reach the node.
ReadCall(op, ip, ones) ==
    [op |-> op, ip |-> ip, ones |-> ones, rev |-> {}, spare |-> 0]

\* The calls each goroutine makes.
ReadCalls(r) ==
    IF r = 1
    THEN {ReadCall("ContainsIP", ipA, 0),
          ReadCall("ContainsIP", ipD, 0),
          ReadCall("GetAllIPs", ipA, 0),
          ReadCall("GetIPsInRange", ipA, 0),
          ReadCall("GetIPsInRange", ipA, 6),
          ReadCall("GetIPsInRange", ipD, 4),
          ReadCall("CountIPsInRange", ipA, 0),
          ReadCall("CountIPsInRange", ipA, 124),
          ReadCall("CountIPsInRange", ipB, 128),
          ReadCall("CountIPsInRange", ipD, 64),
          ReadCall("CountIPsInRange", ipA, 127)}
    ELSE {ReadCall("ContainsIP", ipC, 0),
          ReadCall("GetIPsInRange", ipA, 64),
          ReadCall("CountIPsInRange", ipA, 64)}

\* The capacities the codec may give the slice of call c: GetIPsInRange on
\* a range of one nybble or more gets a slice; no other call does.
SpareOf(c) ==
    IF c.op = "GetIPsInRange" /\ c.ones % NybbleBits = 0 /\ c.ones > 0
    THEN SpareChoices(c.ones \div NybbleBits)
    ELSE {0}

\* What a call returns; a field the call does not use keeps its default.
NoResult ==
    [outcome |-> "ok", bool |-> FALSE, ips |-> <<>>, count |-> 0,
     size |-> 0, warned |-> 0]

\* A goroutine: pc is "idle" (no call made yet), "contains" (in
\* containsNybbles), "seek" (in seekNode), "range" (in the range loops of
\* GetAllIPs and getAllIPs) or "done"; node and nybbles are the receiver and
\* argument of the walk under way; network is networkNybbles; stack holds
\* the range loops under way, outermost first, each with its node, the keys
\* left to visit and its parentNybbles; allocs counts the arrays allocated;
\* overlap is whether the other goroutine was inside a call when this one
\* made its call.
NoSlice == [arr |-> 0, len |-> 0, cap |-> 0]

Idle ==
    [pc |-> "idle", call |-> ReadCall("", <<>>, 0), node |-> 0,
     nybbles |-> <<>>, network |-> NoSlice, stack |-> <<>>, allocs |-> 0,
     overlap |-> FALSE, res |-> NoResult]

\* The call returns res.
returns(rd, res) ==
    [rd EXCEPT !.pc = "done", !.res = res, !.stack = <<>>,
               !.nybbles = <<>>, !.node = 0]

\* The call panics: it returns nothing; what it logged stays logged.
panics(rd) ==
    returns(rd, [NoResult EXCEPT !.outcome = "panic",
                                 !.warned = rd.res.warned])

\* The range loops whose keys are all visited return to their callers; the
\* call returns when the outermost has.
RECURSIVE unwind(_)
unwind(rd) ==
    IF rd.stack = <<>> THEN returns(rd, rd.res)
    ELSE IF rd.stack[Len(rd.stack)].keys # <<>> THEN rd
    ELSE unwind([rd EXCEPT !.stack = SubSeq(@, 1, Len(@) - 1)])

\* The keys of a range loop in the order the runtime visits them at a node
\* reached by level nybbles: downwards when down, else upwards.
LoopOrder(keys, level, down) ==
    RangeOrder(keys, level, IF down THEN {level} ELSE {})

\* The orders the runtime may pick for the range loop at the node at address
\* node: a loop over more than one key goes upwards or downwards; one over
\* one key or none (or never reached, the pointer being nil) has one order.
Downs(cells, node) ==
    IF node \in DOMAIN cells /\ Cardinality(DOMAIN cells[node].Children) > 1
    THEN BOOLEAN
    ELSE {FALSE}

\* The loops run downwards so far, with the one at level: a loop over one
\* key has one order.
LoopsDown(rev, keys, level, down) ==
    IF down /\ Cardinality(keys) > 1 THEN rev \cup {level} ELSE rev

\* getAllIPs up to its range loop, called on the node at address child; the
\* runtime picks the order of the loop (down).
enter(rd, cells, child, parentNybbles, down) ==
    IF child \notin DOMAIN cells THEN panics(rd)
    ELSE IF DOMAIN cells[child].Children = {}
    THEN IF cells[child].Depth # LeafDepth
         THEN unwind([rd EXCEPT !.pc = "range", !.res.warned = @ + 1])
         ELSE unwind([rd EXCEPT
                        !.pc = "range",
                        !.res.ips =
                            Append(@, NybblesToIP(
                                          SliceElems(cells, parentNybbles)))])
    ELSE [rd EXCEPT
            !.pc = "range",
            !.call.rev = LoopsDown(@, DOMAIN cells[child].Children,
                                   parentNybbles.len, down),
            !.stack = Append(@, [node |-> child,
                                 keys |-> LoopOrder(
                                              DOMAIN cells[child].Children,
                                              parentNybbles.len, down),
                                 parent |-> parentNybbles])]

\* GetAllIPs up to its range loop; the runtime picks the order of the loop.
enterRoot(rd, cells, down) ==
    IF cells[RootAddr].ChildrenCount = 0 THEN returns(rd, rd.res)
    ELSE unwind([rd EXCEPT
                   !.pc = "range",
                   !.call.rev = LoopsDown(@, DOMAIN cells[RootAddr].Children,
                                          0, down),
                   !.stack = <<[node |-> RootAddr,
                                keys |-> LoopOrder(
                                             DOMAIN cells[RootAddr].Children,
                                             0, down),
                                parent |-> NoSlice]>>])

\* The first step of a walk from the root along nybbles (containsIPByNybbles
\* or seekChildByNybbles): 0, the nil pointer, when the root has no child
\* for the first nybble.
rootChild(cells, nybbles) ==
    IF Head(nybbles) \in DOMAIN cells[RootAddr].Children
    THEN cells[RootAddr].Children[Head(nybbles)]
    ELSE 0

\* A call up to its first node below the root: [rd, cells].
callStep(rd0, cells, r, c, busy, down) ==
    LET rd == [rd0 EXCEPT !.call = c, !.overlap = busy]
        seek == getSeekNybbles(c.ip, c.ones)
        ipNybbles == GetNybblesFromIP(c.ip, NybbleCount)
        made == makeSliceAt(cells, ArrayAt(r, rd.allocs), seek.nybbles,
                            c.spare)
    IN  CASE c.op = "ContainsIP" ->
                [cells |-> cells,
                 rd |-> IF rootChild(cells, ipNybbles) = 0
                        THEN returns(rd, NoResult)
                        ELSE [rd EXCEPT
                                !.pc = "contains",
                                !.node = rootChild(cells, ipNybbles),
                                !.nybbles = Tail(ipNybbles)]]
          [] c.op = "GetAllIPs" ->
                [cells |-> cells, rd |-> enterRoot(rd, cells, down)]
          [] c.op = "GetIPsInRange" /\ seek.err ->
                [cells |-> cells,
                 rd |-> returns(rd, [NoResult EXCEPT !.outcome = "error",
                                                     !.size = seek.size])]
          [] c.op = "GetIPsInRange" /\ ~seek.err /\ Len(seek.nybbles) = 0 ->
                [cells |-> cells, rd |-> enterRoot(rd, cells, down)]
          [] c.op = "GetIPsInRange" /\ ~seek.err /\ Len(seek.nybbles) > 0 ->
                [cells |-> made.cells,
                 rd |-> IF rootChild(cells, seek.nybbles) = 0
                        THEN panics([rd EXCEPT !.allocs = @ + 1])
                        ELSE [rd EXCEPT
                                !.pc = "seek",
                                !.allocs = @ + 1,
                                !.network = made.slice,
                                !.node = rootChild(cells, seek.nybbles),
                                !.nybbles = Tail(seek.nybbles)]]
          [] c.op = "CountIPsInRange" /\ seek.err ->
                [cells |-> cells,
                 rd |-> returns(rd, [NoResult EXCEPT !.outcome = "error",
                                                     !.count = -1,
                                                     !.size = seek.size])]
          [] c.op = "CountIPsInRange" /\ ~seek.err
                                      /\ Len(seek.nybbles) = 0 ->
                [cells |-> cells,
                 rd |-> returns(rd, [NoResult EXCEPT
                                       !.count =
                                           cells[RootAddr].ChildrenCount])]
          [] c.op = "CountIPsInRange" /\ ~seek.err
                                      /\ Len(seek.nybbles) = NybbleCount ->
                [cells |-> cells,
                 rd |-> IF rootChild(cells, seek.nybbles) = 0
                        THEN returns(rd, NoResult)
                        ELSE [rd EXCEPT
                                !.pc = "contains",
                                !.node = rootChild(cells, seek.nybbles),
                                !.nybbles = Tail(seek.nybbles)]]
          [] OTHER ->
                [cells |-> cells,
                 rd |-> IF rootChild(cells, seek.nybbles) = 0
                        THEN panics(rd)
                        ELSE [rd EXCEPT
                                !.pc = "seek",
                                !.node = rootChild(cells, seek.nybbles),
                                !.nybbles = Tail(seek.nybbles)]]

\* What containsNybbles found, as the call under way returns it: ContainsIP
\* the boolean, CountIPsInRange 1 or 0.
found(rd, b) ==
    IF rd.call.op = "ContainsIP"
    THEN returns(rd, [NoResult EXCEPT !.bool = b])
    ELSE returns(rd, [NoResult EXCEPT !.count = IF b THEN 1 ELSE 0])

\* containsNybbles making the child it does not find, as addNybbles does.
containsStep_creating(rd, cells, r) ==
    IF Head(rd.nybbles) \notin DOMAIN cells[rd.node].Children
    THEN [cells |->
             (ArrayAt(r, rd.allocs) :>
                  newAddressTreeNode((cells[rd.node].Depth + 1) % Uint8Mod))
             @@ [cells EXCEPT
                   ![rd.node].Children =
                       MapPut(@, Head(rd.nybbles), ArrayAt(r, rd.allocs))],
          rd |-> found(rd, FALSE)]
    ELSE IF Len(rd.nybbles) = 1
    THEN [cells |-> cells, rd |-> found(rd, TRUE)]
    ELSE [cells |-> cells,
          rd |-> [rd EXCEPT
                    !.node = cells[rd.node].Children[Head(rd.nybbles)],
                    !.nybbles = Tail(rd.nybbles)]]

\* One call of containsNybbles, on the node at rd.node: [rd, cells].
containsStep(rd, cells, r) ==
    IF Head(rd.nybbles) \notin DOMAIN cells[rd.node].Children
    THEN [cells |-> cells, rd |-> found(rd, FALSE)]
    ELSE IF Len(rd.nybbles) = 1
    THEN [cells |-> cells, rd |-> found(rd, TRUE)]
    ELSE [cells |-> cells,
          rd |-> [rd EXCEPT
                    !.node = cells[rd.node].Children[Head(rd.nybbles)],
                    !.nybbles = Tail(rd.nybbles)]]

\* One call of seekNode, on the node at rd.node, and, when it is the last,
\* what the caller does with the node it returns: CountIPsInRange reads its
\* ChildrenCount, GetIPsInRange calls getAllIPs on it; both panic on nil.
seekStep(rd, cells, r, down) ==
    IF Len(rd.nybbles) = 0
    THEN [cells |-> cells,
          rd |-> IF rd.call.op = "CountIPsInRange"
                 THEN returns(rd, [NoResult EXCEPT
                                     !.count = cells[rd.node].ChildrenCount])
                 ELSE enter(rd, cells, rd.node, rd.network, down)]
    ELSE IF Head(rd.nybbles) \notin DOMAIN cells[rd.node].Children
    THEN [cells |-> cells, rd |-> panics(rd)]
    ELSE [cells |-> cells,
          rd |-> [rd EXCEPT
                    !.node = cells[rd.node].Children[Head(rd.nybbles)],
                    !.nybbles = Tail(rd.nybbles)]]

\* The address of the child the innermost range loop under way visits next.
nextChild(rd, cells) ==
    cells[rd.stack[Len(rd.stack)].node].Children[
        Head(rd.stack[Len(rd.stack)].keys)]

\* One iteration of the innermost range loop under way: the slice for the
\* child ([]uint8{k} at the root, append(parentNybbles, k) at a node), then
\* getAllIPs on the child up to its own loop.
rangeStep(rd, cells, r, down) ==
    LET top == rd.stack[Len(rd.stack)]
        k == Head(top.keys)
        a == IF top.node = RootAddr
             THEN makeSliceAt(cells, ArrayAt(r, rd.allocs), <<k>>, 0)
             ELSE appendNybbleAt(cells, ArrayAt(r, rd.allocs), top.parent, k)
        visited == [rd EXCEPT !.stack[Len(rd.stack)].keys = Tail(@),
                              !.allocs = @ + a.fresh]
    IN  [cells |-> a.cells,
         rd |-> enter(visited, a.cells, cells[top.node].Children[k], a.slice,
                      down)]

\* What call c returns when it runs alone on the tree, start to end, with
\* the slice capacity and the loop orders it met.
Alone(addrTree, c) ==
    CASE c.op = "ContainsIP" ->
            [NoResult EXCEPT !.bool = ContainsIP(addrTree, c.ip)]
      [] c.op = "GetAllIPs" ->
            LET r == GetAllIPs(addrTree, <<>>, c.rev)
            IN  [NoResult EXCEPT
                   !.outcome = IF r.panic THEN "panic" ELSE "ok",
                   !.ips = r.ips, !.warned = r.warned]
      [] c.op = "GetIPsInRange" ->
            LET r == GetIPsInRange(addrTree, c.ip, c.ones, c.rev, c.spare)
            IN  [NoResult EXCEPT !.outcome = r.outcome, !.ips = r.ips,
                                 !.size = r.size, !.warned = r.warned]
      [] OTHER ->
            LET r == CountIPsInRange(addrTree, c.ip, c.ones)
            IN  [NoResult EXCEPT !.outcome = r.outcome, !.count = r.count,
                                 !.size = r.size]

\* The lists the trees read concurrently are built from.
ReadBatches == {<<>>, <<ipA, ipB>>, <<ipA, ipC, ipD>>}

ReadTrees == {CreateFromAddresses(toAdd, 1).tree : toAdd \in ReadBatches}

\* The calls with every capacity and every choice of loop orders.
CallsMet ==
    UNION {{[c EXCEPT !.rev = rev, !.spare = spare] :
               rev \in RangeOrders, spare \in SpareOf(c)} :
           c \in ReadCalls(1) \cup ReadCalls(2)}

AloneTable ==
    [t \in ReadTrees |->
        [c \in CallsMet |-> Alone(t, c)] @@ <<>>] @@ <<>>

\* A panic in one goroutine ends the process.
Crashed == \E r \in Readers : readers[r].res.outcome = "panic"

ReadInit ==
    /\ \E toAdd \in ReadBatches :
          LET r == CreateFromAddresses(toAdd, 1)
          IN  /\ tree = r.tree
              /\ inserted = Elems(toAdd)
              /\ numAdded = r.added
              /\ mem = Store(r.tree)
    /\ last = NoCall
    /\ disk = [file |-> NoFile, saved |-> newAddressTree, inserted |-> {},
               numAdded |-> 0]
    /\ readers = [r \in Readers |-> Idle]

\* A goroutine makes its call.
DoCall ==
    /\ ~Crashed
    /\ \E r \in Readers :
          /\ readers[r].pc = "idle"
          /\ \E c \in ReadCalls(r), down \in Downs(mem, RootAddr) :
             \E spare \in SpareOf(c) :
                LET busy == \E o \in Readers \ {r} :
                                readers[o].pc \notin {"idle", "done"}
                    s == callStep(readers[r], mem, r,
                                  [c EXCEPT !.spare = spare], busy, down)
                IN  /\ mem' = s.cells
                    /\ readers' = [readers EXCEPT ![r] = s.rd]
    /\ UNCHANGED <<tree, inserted, numAdded, last, disk>>

\* A goroutine inside ContainsIP or CountIPsInRange visits the next node.
DoContains ==
    /\ ~Crashed
    /\ \E r \in Readers :
          /\ readers[r].pc = "contains"
          /\ LET s == containsStep(readers[r], mem, r)
             IN  /\ mem' = s.cells
                 /\ readers' = [readers EXCEPT ![r] = s.rd]
    /\ UNCHANGED <<tree, inserted, numAdded, last, disk>>

\* A goroutine seeking the node of a range visits the next node.
DoSeek ==
    /\ ~Crashed
    /\ \E r \in Readers :
          /\ readers[r].pc = "seek"
          /\ \E down \in Downs(mem, readers[r].node) :
             LET s == seekStep(readers[r], mem, r, down)
             IN  /\ mem' = s.cells
                 /\ readers' = [readers EXCEPT ![r] = s.rd]
    /\ UNCHANGED <<tree, inserted, numAdded, last, disk>>

\* A goroutine listing addresses visits the next child.
DoRange ==
    /\ ~Crashed
    /\ \E r \in Readers :
          /\ readers[r].pc = "range"
          /\ \E down \in Downs(mem, nextChild(readers[r], mem)) :
             LET s == rangeStep(readers[r], mem, r, down)
             IN  /\ mem' = s.cells
                 /\ readers' = [readers EXCEPT ![r] = s.rd]
    /\ UNCHANGED <<tree, inserted, numAdded, last, disk>>

ReadNext ==
    \/ DoCall
    \/ DoContains
    \/ DoSeek
    \/ DoRange

ReadSpec == ReadInit /\ [][ReadNext]_vars

\* ------------------------------------------------------------------- claims

\* The first n nybbles of an address.
Prefix(ip, n) == GetNybblesFromIP(ip, n)

\* The addresses given to the tree whose first n nybbles are those of ip.
StoredUnder(ip, n) == {a \in inserted : Prefix(a, n) = Prefix(ip, n)}

Aligned(ones) == ones % NybbleBits = 0

Symbols(ones) == ones \div NybbleBits

\* Walking the first n >= 1 nybbles of ip from the root meets no missing child.
PathExists(ip, n) == seekChildByNybbles(tree, Prefix(ip, n)).node # Nil

\* The last call was made with an aligned range of lo..hi nybbles.
RangeCall(op, lo, hi) ==
    /\ last.op = op
    /\ Aligned(last.ones)
    /\ Symbols(last.ones) \in lo..hi

\* C1: GetAllIPs on the tree CreateFromAddresses returns for a list yields
\* exactly the distinct addresses of the list, each once, whatever the order
\* the range loops take.
C1_RoundTrip ==
    (last.op = "CreateFromAddresses" /\ last.outcome = "ok") =>
        \A rev \in RangeOrders :
            LET got == GetAllIPs(tree, <<>>, rev).ips
            IN  /\ Elems(got) = Elems(last.toAdd)
                /\ Len(got) = Cardinality(Elems(last.toAdd))

C1_Witness ==
    /\ last.op = "CreateFromAddresses"
    /\ last.outcome = "ok"
    /\ last.toAdd = <<ipD, ipC, ipD, ipA>>
    /\ Elems(GetAllIPs(tree, <<>>, {}).ips) = {ipA, ipC, ipD}

\* C2: AddIP of an address already given to the tree returns false and leaves
\* the whole tree as it was; AddIP of an address not yet given returns true;
\* so the same address twice in a row returns true, then false with the root
\* count as it was.
C2_DuplicateLeavesTree ==
    [][ last'.op = "AddIP" =>
          /\ last'.ip \in inserted => (~last'.bool /\ tree' = tree)
          /\ last'.ip \notin inserted => last'.bool
          /\ (last.op = "AddIP" /\ last.ip = last'.ip /\ last.bool) =>
                (~last'.bool /\ tree'.ChildrenCount = tree.ChildrenCount)
      ]_vars

C2_Witness ==
    /\ last.op = "AddIP"
    /\ last.ip = ipB
    /\ ~last.bool
    /\ inserted = {ipA, ipB}
    /\ tree.ChildrenCount = 2

\* C3: ContainsIP(a) is true exactly when a was given to the tree before; it
\* is false on the empty tree and for an address that only shares its first
\* nybbles with the addresses stored.
C3_ContainsIffInserted ==
    last.op = "ContainsIP" => (last.bool <=> last.ip \in inserted)

C3_Witness ==
    /\ last.op = "ContainsIP"
    /\ last.ip = ipB
    /\ inserted = {ipA, ipC}
    /\ ~last.bool

\* C4: for an aligned range of 1 to 32 nybbles whose path exists in the tree,
\* GetIPsInRange returns without error exactly the stored addresses that
\* begin with those nybbles, each once, also when the node reached branches
\* at several levels and the nybble slice is extended in place.
C4_RangeListsStoredUnderPrefix ==
    (/\ RangeCall("GetIPsInRange", 1, NybbleCount)
     /\ PathExists(last.ip, Symbols(last.ones))) =>
        /\ last.outcome = "ok"
        /\ Elems(last.ips) = StoredUnder(last.ip, Symbols(last.ones))
        /\ Len(last.ips) = Cardinality(StoredUnder(last.ip, Symbols(last.ones)))

C4_Witness ==
    /\ last.op = "GetIPsInRange"
    /\ last.ip = ipB
    /\ last.ones = 4
    /\ inserted = {ipA, ipB, ipC}
    /\ Len(last.ips) = 3

\* C5: for an aligned range of 1 to 31 nybbles whose path exists in the tree,
\* CountIPsInRange returns without error the ChildrenCount of the node the
\* nybbles lead to, which is the number of stored addresses that begin with
\* them.
C5_CountIsNodeCount ==
    (/\ RangeCall("CountIPsInRange", 1, NybbleCount - 1)
     /\ PathExists(last.ip, Symbols(last.ones))) =>
        /\ last.outcome = "ok"
        /\ last.count =
              seekChildByNybbles(
                  tree, Prefix(last.ip, Symbols(last.ones))).node.ChildrenCount
        /\ last.count = Cardinality(StoredUnder(last.ip, Symbols(last.ones)))

C5_Witness ==
    /\ last.op = "CountIPsInRange"
    /\ last.ip = ipA
    /\ last.ones = 124
    /\ inserted = {ipA, ipB, ipC}
    /\ last.count = 2

\* C6: for every aligned range, of any length and any base address, whether
\* or not an address is stored under it, GetIPsInRange and CountIPsInRange
\* both complete without error and the count is the number of addresses
\* listed.
C6_CountMatchesList ==
    RangeCall("GetIPsInRange", 0, NybbleCount) =>
        LET counted == CountIPsInRange(tree, last.ip, last.ones)
        IN  /\ last.outcome = "ok"
            /\ counted.outcome = "ok"
            /\ counted.count = Len(last.ips)

\* Both calls panic on a range of 16 nybbles that no stored address is under.
C6_Witness ==
    /\ last.op = "GetIPsInRange"
    /\ last.ip = ipD
    /\ last.ones = 64
    /\ inserted = {ipA, ipB}
    /\ last.outcome = "panic"
    /\ CountIPsInRange(tree, last.ip, last.ones).outcome = "panic"

\* C7: for an aligned range of at least one nybble whose walk from the root
\* meets a missing child, GetIPsInRange completes normally and returns an
\* empty list and no error.
C7_MissingChildListsNothing ==
    (/\ RangeCall("GetIPsInRange", 1, NybbleCount)
     /\ ~PathExists(last.ip, Symbols(last.ones))) =>
        /\ last.outcome = "ok"
        /\ last.ips = <<>>

\* The first nybble is missing at the root of a tree that is not empty.
C7_Witness ==
    /\ last.op = "GetIPsInRange"
    /\ last.ip = ipD
    /\ last.ones = 4
    /\ inserted = {ipA}
    /\ last.outcome = "panic"

\* C8: for an aligned range of 1 to 31 nybbles that no stored address is
\* under, CountIPsInRange completes normally and returns 0 and no error.
C8_MissingChildCountsZero ==
    (/\ RangeCall("CountIPsInRange", 1, NybbleCount - 1)
     /\ StoredUnder(last.ip, Symbols(last.ones)) = {}) =>
        /\ last.outcome = "ok"
        /\ last.count = 0

\* The last of 31 nybbles is missing at a node.
C8_Witness ==
    /\ last.op = "CountIPsInRange"
    /\ last.ip = ipC
    /\ last.ones = 124
    /\ inserted = {ipA, ipB}
    /\ last.outcome = "panic"

\* C9: on a range of length 0, CountIPsInRange returns the root's
\* ChildrenCount, which is the number of distinct addresses given to the tree
\* and the number of AddIP calls that returned true, and GetIPsInRange
\* returns the addresses GetAllIPs returns.
C9_ZeroLengthIsWholeTree ==
    /\ (last.op = "CountIPsInRange" /\ last.ones = 0) =>
          /\ last.outcome = "ok"
          /\ last.count = tree.ChildrenCount
          /\ last.count = Cardinality(inserted)
          /\ last.count = numAdded
    /\ (last.op = "GetIPsInRange" /\ last.ones = 0) =>
          /\ last.outcome = "ok"
          /\ \A rev \in RangeOrders :
                LET all == GetAllIPs(tree, <<>>, rev).ips
                IN  /\ Elems(last.ips) = Elems(all)
                    /\ Len(last.ips) = Len(all)

C9_Witness ==
    /\ last.op = "CountIPsInRange"
    /\ last.ones = 0
    /\ inserted = {ipA, ipB, ipD}
    /\ last.count = 3

\* C10: on a range of a whole address (32 nybbles), CountIPsInRange returns
\* without error 1 when ContainsIP of that address is true and 0 otherwise:
\* the answer is that of the membership walk, not a node's ChildrenCount.
C10_FullWidthIsMembership ==
    (last.op = "CountIPsInRange" /\ last.ones = NybbleBits * NybbleCount) =>
        /\ last.outcome = "ok"
        /\ last.count = IF ContainsIP(tree, last.ip) THEN 1 ELSE 0
        /\ last.count = IF last.ip \in inserted THEN 1 ELSE 0

\* The address is stored, and the node its 32 nybbles lead to counts 0.
C10_Witness ==
    /\ last.op = "CountIPsInRange"
    /\ last.ones = NybbleBits * NybbleCount
    /\ last.ip = ipA
    /\ inserted = {ipA, ipB}
    /\ last.count = 1
    /\ seekChildByNybbles(
           tree, Prefix(ipA, NybbleCount)).node.ChildrenCount = 0

\* C11: on a range whose mask size is not a multiple of 4, GetIPsInRange
\* returns an error and no list, CountIPsInRange returns an error and -1,
\* the error carries the mask size, and the tree is left as it was; on a
\* range whose mask size is a multiple of 4 neither returns an error.
C11_UnalignedIsRejected ==
    [][ last'.op \in {"GetIPsInRange", "CountIPsInRange"} =>
          IF Aligned(last'.ones)
          THEN last'.outcome # "error"
          ELSE /\ last'.outcome = "error"
               /\ last'.size = last'.ones
               /\ last'.ips = <<>>
               /\ last'.op = "CountIPsInRange" => last'.count = -1
               /\ tree' = tree
      ]_vars

C11_Witness ==
    /\ last.op = "CountIPsInRange"
    /\ last.ones = 127
    /\ last.outcome = "error"
    /\ last.size = 127
    /\ last.count = -1
    /\ inserted = {ipA, ipB}

\* C12: AddIPs of a list on a tree returns, when it returns, added = the
\* number of distinct addresses of the list not stored before and skipped =
\* the length of the list less added; the root's ChildrenCount grows by
\* added, and GetAllIPs then returns what was stored before and the
\* addresses of the list (A, B, A on the empty tree: (2, 1), then {A, B}).
C12_AddIPsCounts ==
    [][ (last'.op = "AddIPs" /\ last'.outcome = "ok") =>
          /\ last'.added = Cardinality(Elems(last'.toAdd) \ inserted)
          /\ last'.skipped = Len(last'.toAdd) - last'.added
          /\ tree'.ChildrenCount = tree.ChildrenCount + last'.added
          /\ Elems(GetAllIPsTable[tree'][{}].ips) =
                inserted \cup Elems(last'.toAdd)
      ]_vars

C12_Witness ==
    /\ last.op = "AddIPs"
    /\ last.toAdd = <<ipA, ipB, ipA>>
    /\ last.added = 2
    /\ last.skipped = 1
    /\ numAdded = 2
    /\ Elems(GetAllIPs(tree, <<>>, {}).ips) = {ipA, ipB}

\* The lists that hold the elements of toAdd, each as often, in any order.
Reorderings(toAdd) ==
    {[i \in 1..Len(toAdd) |-> toAdd[p[i]]] :
        p \in {q \in [1..Len(toAdd) -> 1..Len(toAdd)] :
                  \A i, j \in 1..Len(toAdd) : q[i] = q[j] => i = j}}

\* C13: two lists that are permutations of one another, inserted into empty
\* trees, give the same tree (the same nodes on the same paths with the same
\* Depth and ChildrenCount, the same root count) and the same added and
\* skipped totals.
C13_OrderDoesNotMatter ==
    (last.op = "CreateFromAddresses" /\ last.outcome = "ok") =>
        \A other \in Reorderings(last.toAdd) :
            LET r == CreateFromAddresses(other, last.emitFreq)
            IN  /\ r.tree = tree
                /\ r.added = last.added
                /\ r.skipped = last.skipped

C13_Witness ==
    /\ last.op = "CreateFromAddresses"
    /\ last.outcome = "ok"
    /\ last.toAdd = <<ipD, ipC, ipD, ipA>>
    /\ <<ipA, ipD, ipD, ipC>> \in Reorderings(last.toAdd)
    /\ CreateFromAddresses(<<ipA, ipD, ipD, ipC>>, 1).tree = tree
    /\ tree.ChildrenCount = 3

NodeAt(ip, n) == seekChildByNybbles(tree, Prefix(ip, n)).node

\* The nodes of the tree, each with the nybbles that lead to it.
RECURSIVE NodesBelow(_, _)
NodesBelow(addrTreeNode, path) ==
    {[path |-> path, node |-> addrTreeNode]}
    \cup UNION {NodesBelow(addrTreeNode.Children[k], Append(path, k)) :
                   k \in DOMAIN addrTreeNode.Children}

AllNodes ==
    UNION {NodesBelow(tree.Children[k], <<k>>) : k \in DOMAIN tree.Children}

\* C15: every node of the tree, at every depth 0 to 31 (reached by 1 to 32
\* nybbles of a stored address), has as its ChildrenCount the number of
\* stored addresses whose path passes through it.
C15_EveryNodeCounts ==
    \A e \in AllNodes :
        e.node.ChildrenCount =
            Cardinality({a \in inserted : Prefix(a, Len(e.path)) = e.path})

\* The node that terminates a stored address counts 0; the node above it
\* counts the address.
C15_Witness ==
    /\ inserted = {ipA}
    /\ last.op = "AddIP"
    /\ last.bool
    /\ NodeAt(ipA, NybbleCount).Depth = LeafDepth
    /\ NodeAt(ipA, NybbleCount).ChildrenCount = 0
    /\ NodeAt(ipA, NybbleCount - 1).ChildrenCount = 1

\* C16: a node has no children exactly when it is at Depth 31, reached by 32
\* nybbles; so GetAllIPs and GetIPsInRange never take the branch of getAllIPs
\* for a childless node at another Depth, and drop no stored address.
C16_ChildlessIffLeaf ==
    /\ \A e \in AllNodes :
          /\ (DOMAIN e.node.Children = {}) <=> (e.node.Depth = LeafDepth)
          /\ (DOMAIN e.node.Children = {}) <=> (Len(e.path) = NybbleCount)
    /\ last.op \in {"GetAllIPs", "GetIPsInRange"} => last.warned = 0
    /\ last.op = "GetAllIPs" => Elems(last.ips) = inserted
    /\ (last.op = "GetIPsInRange" /\ last.outcome = "ok") =>
          Elems(last.ips) = StoredUnder(last.ip, Symbols(last.ones))

C16_Witness ==
    /\ last.op = "GetAllIPs"
    /\ inserted = {ipA, ipB, ipC}
    /\ Len(last.ips) = 3
    /\ last.warned = 0
    /\ Cardinality({e \in AllNodes : DOMAIN e.node.Children = {}}) = 3

\* C17: a node reached from the root by k nybbles (1 <= k <= 32) has Depth
\* k - 1: the root's children have Depth 0, a child has its parent's Depth
\* plus 1, and no Depth exceeds 31.
C17_DepthIsPathLength ==
    \A e \in AllNodes :
        /\ Len(e.path) \in 1..NybbleCount
        /\ e.node.Depth = Len(e.path) - 1
        /\ e.node.Depth <= LeafDepth
        /\ \A k \in DOMAIN e.node.Children :
              e.node.Children[k].Depth = e.node.Depth + 1

C17_Witness ==
    /\ inserted = {ipA, ipC, ipD}
    /\ Cardinality({e.node.Depth : e \in AllNodes}) = NybbleCount
    /\ \A k \in DOMAIN tree.Children : tree.Children[k].Depth = 0
    /\ NodeAt(ipC, NybbleCount).Depth = LeafDepth

\* AddIP applied to each address of toAdd in order, from the tree in acc.
RECURSIVE EachAddIP(_, _)
EachAddIP(acc, toAdd) ==
    IF toAdd = <<>> THEN acc
    ELSE LET r == AddIP(acc.tree, Head(toAdd))
         IN  EachAddIP([tree |-> r.tree,
                        added |-> acc.added + (IF r.ret THEN 1 ELSE 0),
                        skipped |-> acc.skipped + (IF r.ret THEN 0 ELSE 1)],
                       Tail(toAdd))

\* C18: for every interval >= 0 and every list, AddIPs and
\* CreateFromAddresses complete and give the added and skipped counts and
\* the tree that AddIP applied to each address in order gives; the interval
\* changes the log messages only.
C18_IntervalIsObservational ==
    [][ last'.op \in {"AddIPs", "CreateFromAddresses"} =>
          LET start == IF last'.op = "AddIPs" THEN tree ELSE newAddressTree
              each == EachAddIP([tree |-> start, added |-> 0, skipped |-> 0],
                                last'.toAdd)
          IN  /\ last'.outcome = "ok"
              /\ tree' = each.tree
              /\ last'.added = each.added
              /\ last'.skipped = each.skipped
      ]_vars

\* An interval of 0 with a list that is not empty: i % emitFreq panics.
C18_Witness ==
    /\ last.op = "AddIPs"
    /\ last.emitFreq = 0
    /\ last.toAdd = <<ipA, ipB>>
    /\ last.outcome = "panic"
    /\ inserted = {}

\* C19: a step of ContainsIP, GetAllIPs, GetIPsInRange or CountIPsInRange,
\* whatever it returns (an error and a panic included), leaves every cell of
\* the tree as it was: each node's Children, ChildrenCount and Depth and the
\* root's Children and ChildrenCount; and a call whose steps interleave with
\* another goroutine's returns what it returns when it runs alone.
C19_ReadsLeaveTree ==
    [][ /\ \A a \in DOMAIN mem :
              a < ArrayBase => (a \in DOMAIN mem' /\ mem'[a] = mem[a])
        /\ \A a \in DOMAIN mem' : a < ArrayBase => a \in DOMAIN mem
        /\ \A r \in Readers :
              readers'[r].pc = "done" =>
                 readers'[r].res = AloneTable[tree][readers'[r].call]
      ]_vars

\* Two calls that overlapped have both returned: one listed the three
\* addresses of the tree with its root loop run downwards, the other the
\* two under a /64 with its loop run downwards, on a slice with spare
\* capacity.
C19_Witness ==
    /\ inserted = {ipA, ipC, ipD}
    /\ readers[1].pc = "done"
    /\ readers[2].pc = "done"
    /\ readers[2].overlap
    /\ readers[1].call.op = "GetAllIPs"
    /\ readers[1].res.ips = <<ipD, ipA, ipC>>
    /\ readers[2].call.op = "GetIPsInRange"
    /\ readers[2].call.spare = 16
    /\ readers[2].res.ips = <<ipC, ipA>>

\* Every node of old is in new on the same path, with each of its children
\* and a ChildrenCount that is no smaller; old and new are trees or nodes.
RECURSIVE NodeGrows(_, _)
NodeGrows(old, new) ==
    /\ old.ChildrenCount <= new.ChildrenCount
    /\ DOMAIN old.Children \subseteq DOMAIN new.Children
    /\ \A k \in DOMAIN old.Children :
          NodeGrows(old.Children[k], new.Children[k])

\* C20: across the operations on a tree, an address ContainsIP finds stays
\* found, no node leaves a Children map, the ChildrenCount of the root and
\* of every node never decreases, and an AddIP changes the root's
\* ChildrenCount by 0 or 1.  (CreateFromAddresses hands out another tree.)
C20_ContentOnlyGrows ==
    [][ last'.op # "CreateFromAddresses" =>
          /\ \/ tree' = tree
             \/ /\ NodeGrows(tree, tree')
                /\ \A a \in IPs : ContainsIP(tree, a) => ContainsIP(tree', a)
          /\ last'.op = "AddIP" =>
                tree'.ChildrenCount - tree.ChildrenCount \in {0, 1}
      ]_vars

C20_Witness ==
    /\ last.op = "AddIP"
    /\ last.ip = ipC
    /\ last.bool
    /\ inserted = {ipA, ipB, ipC}
    /\ tree.ChildrenCount = 3
    /\ \A a \in inserted : ContainsIP(tree, a)

====
